---- MODULE Spec2Model ----
(***************************************************************************)
(* Direct-drive LED matrix (LED_Matrix.cpp): the timer ISR that refreshes  *)
(* one matrix line per tick with binary code modulation, the framebuffer   *)
(* it reads, and the foreground operations begin, clear and drawPixel.     *)
(***************************************************************************)
EXTENDS Integers, Sequences, FiniteSets, TLC

\* ------------------------------------------------------------- bounds
\* Largest panel of the refresh specification (rows, columns, colours).
MaxRows == 3
MaxCols == 2
MaxColors == 2

\* -------------------------------------------------- program constants
LOW == 0
HIGH == 1
\* The macros of LED_Matrix.h that LED_Matrix.cpp uses.
\* "No shift register for this colour" in the shift register pin table
\* (begin tests the same entries against 255).
DINV == 255
\* Indices of the data and clock pins in the shift register pin table
\* (begin takes the indices 0..2 for the per-colour latch pins).
DATA == 3
CLK == 4
\* The PWM mask wraps when it reaches this value: 4 BCM bits per colour,
\* one entry of DirectMatrix_ISR_FREQ[4] per bit.
DirectMatrix_PWM_LEVELS == 16

\* ------------------------------------------------------ integer widths
ToUint8(n) == n % 256
ToUint16(n) == n % 65536
ToInt8(n) == LET m == n % 256 IN IF m >= 128 THEN m - 256 ELSE m

\* The bitwise and of two 16-bit words, bit by bit.
RECURSIVE BitAnd(_, _, _)
BitAnd(a, b, bits) ==
    IF bits = 0 THEN 0
    ELSE (IF a % 2 = 1 /\ b % 2 = 1 THEN 1 ELSE 0)
         + 2 * BitAnd(a \div 2, b \div 2, bits - 1)

\* (word & mask) ? HIGH : LOW
MaskLevel(word, mask) == IF BitAnd(word, mask, 16) # 0 THEN HIGH ELSE LOW

VARIABLES
    ARRAY_ROWS,       \* DirectMatrix_ARRAY_ROWS
    ARRAY_COLS,       \* DirectMatrix_ARRAY_COLS
    NUM_COLORS,       \* DirectMatrix_NUM_COLORS
    MATRIX,           \* DirectMatrix_MATRIX: cell index -> 16-bit word
    ROW_PINS,         \* DirectMatrix_ROW_PINS (<<>> before begin)
    COL_PINS,         \* DirectMatrix_COL_PINS
    SR_PINS,          \* DirectMatrix_SR_PINS
    ISR_FREQ,         \* DirectMatrix_ISR_FREQ[4]
    row,              \* ISR static: the row to service next
    pwm,              \* ISR static: the BCM mask of the current pass
    isr_freq_offset,  \* ISR static: index into ISR_FREQ
    pin_mode,         \* GPIO: pin -> "INPUT" until pinMode(pin, OUTPUT)
    pin_level,        \* GPIO: pin -> last level written
    timer_period,     \* Timer1: the period programmed last
    attached,         \* Timer1: the ISR is attached and the timer runs
    rotation,         \* Adafruit_GFX rotation, 0..3
    ISR_runtime,      \* DirectMatrix_ISR_runtime
    ISR_latency,      \* DirectMatrix_ISR_latency
    since_time,       \* what micros() - time is when the next tick fires
    fg_pc,            \* foreground position: "ctor", "halt", "idle", "clear"
    clear_i,          \* the uint8_t loop counter of clear
    isr_calls,        \* history: ISR invocations so far, modulo the frame 4*R
    last_isr,         \* history: what the last ISR invocation did
    frame_log,        \* history: the invocations of the current frame
    cleared,          \* history: clear has returned and nothing was stored since
    last_plot,        \* history: the last drawPixel call
    plot_log          \* history: the invocations since the last drawPixel
                      \* (with the writes of those at the row of its cell)

vars == <<ARRAY_ROWS, ARRAY_COLS, NUM_COLORS, MATRIX, ROW_PINS, COL_PINS,
          SR_PINS, ISR_FREQ, row, pwm, isr_freq_offset, pin_mode, pin_level,
          timer_period, attached, rotation, fg_pc, clear_i, isr_calls,
          last_isr, frame_log, cleared, last_plot, ISR_runtime,
          ISR_latency, since_time, plot_log>>

config_vars == <<ARRAY_ROWS, ARRAY_COLS, NUM_COLORS>>
table_vars == <<ROW_PINS, COL_PINS, SR_PINS, ISR_FREQ>>
refresh_vars == <<row, pwm, isr_freq_offset>>
gpio_vars == <<pin_mode, pin_level>>
timer_vars == <<timer_period, attached>>
fg_vars == <<fg_pc, clear_i>>
diag_vars == <<ISR_runtime, ISR_latency, since_time>>
isr_hist_vars == <<isr_calls, last_isr, frame_log>>

\* ------------------------------------------------------------ helpers
Pow2(n) == 2 ^ n

\* The level of every pin after the first n writes of W, from `levels`.
RECURSIVE LevelsAfter(_, _, _)
LevelsAfter(levels, W, n) ==
    IF n = 0 THEN levels
    ELSE [LevelsAfter(levels, W, n - 1) EXCEPT ![W[n][1]] = W[n][2]]

\* ------------------------------------------------- the wiring (inputs)
\* The pin tables the application hands to begin: R row pins, K*C column
\* pins, and the shift register table (latch pin or DINV per colour, then
\* the data and the clock pin).  All pins are distinct.
RowPinTable(R) == [i \in 0..(R - 1) |-> 10 + i]
ColPinTable(C, K) == [j \in 0..(K * C - 1) |-> 100 + j]
SrPinTables(K) ==
    {[i \in 0..4 |->
        IF i = DATA THEN 210
        ELSE IF i = CLK THEN 211
        ELSE IF i \in S THEN 200 + i ELSE DINV] : S \in SUBSET (0..(K - 1))}
AllPins(R, C, K) ==
    {10 + i : i \in 0..(R - 1)} \cup {100 + j : j \in 0..(K * C - 1)}
        \cup {200, 201, 202, 210, 211}

\* Words the framebuffer is tried with: 0x3C5A and 0xC3A5 (complementary,
\* each with bits in the nibbles of all four colours), and 0; drawPixel is
\* tried with 0x8421 and 0.
Words == <<15450, 50085, 0>>
PlotWords == {33825, 0}
BasePeriods == {150}

\* malloc does not initialise the framebuffer: any contents.  The model
\* starts from uniform non-zero contents and from the words in turn.
Patterns(n, ws) ==
    {[i \in 0..(n - 1) |-> ws[1]], [i \in 0..(n - 1) |-> ws[2]],
     [i \in 0..(n - 1) |-> ws[(i % Len(ws)) + 1]]}

ClearPatterns(n, ws) == {[i \in 0..(n - 1) |-> ws[(i % Len(ws)) + 1]]}

NoIsr ==
    [valid |-> FALSE, row |-> 0, pwm |-> 0, offset |-> 0, pre |-> <<>>,
     writes |-> <<>>, periods |-> <<>>, tick |-> 0, fb |-> <<>>,
     after_clear |-> FALSE, second |-> FALSE, arrival |-> 0,
     steady |-> FALSE]

NoPlot ==
    [n |-> 0, x |-> 0, y |-> 0, color |-> 0, rot |-> 0, index |-> 0,
     before |-> <<>>, overwritten |-> FALSE]

\* ------------------------------------------------------- construction
\* PWMDirectMatrix(rows, cols, colors): the state when the constructor
\* has returned (malloc succeeded).  Pins are inputs at level LOW (reset).
Constructed(R, C, K, fb) ==
    /\ ARRAY_ROWS = R
    /\ ARRAY_COLS = C
    /\ NUM_COLORS = K
    /\ MATRIX = fb
    /\ ROW_PINS = <<>>
    /\ COL_PINS = <<>>
    /\ SR_PINS = <<>>
    /\ ISR_FREQ = [i \in 0..3 |-> 0]
    /\ row = 0
    /\ pwm = 1
    /\ isr_freq_offset = 0
    /\ pin_mode = [p \in AllPins(R, C, K) |-> "INPUT"]
    /\ pin_level = [p \in AllPins(R, C, K) |-> LOW]
    /\ timer_period = 0
    /\ attached = FALSE
    /\ rotation = 0
    /\ fg_pc = "idle"
    /\ clear_i = 0
    /\ isr_calls = 0
    /\ last_isr = NoIsr
    /\ frame_log = <<>>
    /\ cleared = FALSE
    /\ last_plot = NoPlot
    /\ ISR_runtime = 0
    /\ ISR_latency = 0
    /\ since_time = 0
    /\ plot_log = <<>>

\* The constructor at its malloc call: the sizes are in the globals, the
\* framebuffer pointer is not set yet.
Allocating(R, C, K) ==
    /\ ARRAY_ROWS = R
    /\ ARRAY_COLS = C
    /\ NUM_COLORS = K
    /\ MATRIX = <<>>
    /\ ROW_PINS = <<>>
    /\ COL_PINS = <<>>
    /\ SR_PINS = <<>>
    /\ ISR_FREQ = [i \in 0..3 |-> 0]
    /\ row = 0
    /\ pwm = 1
    /\ isr_freq_offset = 0
    /\ pin_mode = [p \in AllPins(R, C, K) |-> "INPUT"]
    /\ pin_level = [p \in AllPins(R, C, K) |-> LOW]
    /\ timer_period = 0
    /\ attached = FALSE
    /\ rotation = 0
    /\ fg_pc = "ctor"
    /\ clear_i = 0
    /\ isr_calls = 0
    /\ last_isr = NoIsr
    /\ frame_log = <<>>
    /\ cleared = FALSE
    /\ last_plot = NoPlot
    /\ ISR_runtime = 0
    /\ ISR_latency = 0
    /\ since_time = 0
    /\ plot_log = <<>>

\* malloc returns the framebuffer fb: the pointer is published and the
\* constructor returns.
Malloc(fb) ==
    /\ fg_pc = "ctor"
    /\ MATRIX' = fb
    /\ fg_pc' = "idle"
    /\ UNCHANGED <<config_vars, table_vars, refresh_vars, gpio_vars,
                   timer_vars, rotation, clear_i, isr_hist_vars, cleared,
                   last_plot, diag_vars, plot_log>>

\* Mutant of MallocFails: without the while (1) the constructor goes on,
\* publishes the null pointer and returns.
MallocFailsReturns ==
    /\ fg_pc = "ctor"
    /\ fg_pc' = "idle"
    /\ UNCHANGED <<config_vars, MATRIX, table_vars, refresh_vars, gpio_vars,
                   timer_vars, rotation, clear_i, isr_hist_vars, cleared,
                   last_plot, diag_vars, plot_log>>

\* malloc returns null: the constructor enters while (1).
MallocFails ==
    /\ fg_pc = "ctor"
    /\ fg_pc' = "halt"
    /\ UNCHANGED <<config_vars, MATRIX, table_vars, refresh_vars, gpio_vars,
                   timer_vars, rotation, clear_i, isr_hist_vars, cleared,
                   last_plot, diag_vars, plot_log>>

\* One turn of while (1) { Serial.println(...); }.
MallocFailedLoop ==
    /\ fg_pc = "halt"
    /\ UNCHANGED vars

Init ==
    \E R \in 1..MaxRows, C \in 1..MaxCols, K \in 1..MaxColors :
        \E fb \in Patterns(R * C, Words) : Constructed(R, C, K, fb)

\* --------------------------------------------------------------- begin
\* The pre-clocking of one shift register: i = 0 .. _num_rows inclusive.
RECURSIVE BeginClockWrites(_, _)
BeginClockWrites(sr, i) ==
    IF i <= ARRAY_ROWS
    THEN <<<<sr[CLK], LOW>>, <<sr[DATA], i % 2>>, <<sr[CLK], HIGH>>>>
             \o BeginClockWrites(sr, i + 1)
    ELSE <<>>

\* The shift register set-up loop of begin, pin = 0 .. 2.
RECURSIVE BeginSrWrites(_, _)
BeginSrWrites(sr, pin) ==
    IF pin < 3
    THEN (IF sr[pin] = 255 THEN <<>>
          ELSE <<<<sr[pin], LOW>>>> \o BeginClockWrites(sr, 0)
                   \o <<<<sr[pin], HIGH>>>>)
             \o BeginSrWrites(sr, pin + 1)
    ELSE <<>>

\* Every digitalWrite of begin, in order: the rows HIGH, the first
\* _num_cols column pins LOW, then the shift registers.
BeginWrites(rows, cols, sr) ==
    [i \in 1..ARRAY_ROWS |-> <<rows[i - 1], HIGH>>]
        \o [i \in 1..ARRAY_COLS |-> <<cols[i - 1], LOW>>]
        \o BeginSrWrites(sr, 0)

\* The pins begin configures as OUTPUT.
BeginOutputs(rows, cols, sr) ==
    {rows[i] : i \in 0..(ARRAY_ROWS - 1)}
        \cup {cols[i] : i \in 0..(ARRAY_COLS - 1)}
        \cup UNION {{sr[pin], sr[DATA], sr[CLK]} :
                      pin \in {q \in 0..2 : sr[q] # 255}}

\* Mutant of IsrFreqTable: the periods grow by addition, not by doubling.
IsrFreqTableLinear(freq) == [i \in 0..3 |-> freq * (i + 1)]

\* The period table: __ISR_freq << i (uint32_t; the periods tried are
\* microseconds far below 2^29, so no shift overflows).
IsrFreqTable(freq) == [i \in 0..3 |-> freq * Pow2(i)]

begin(sr, freq) ==
    /\ ~attached
    /\ fg_pc = "idle"
    /\ \E rows \in {RowPinTable(ARRAY_ROWS)},
          cols \in {ColPinTable(ARRAY_COLS, NUM_COLORS)} :
       \E W \in {BeginWrites(rows, cols, sr)} :
          /\ ROW_PINS' = rows
          /\ COL_PINS' = cols
          /\ SR_PINS' = sr
          /\ ISR_FREQ' = IsrFreqTable(freq)
          /\ pin_mode' = [p \in DOMAIN pin_mode |->
                            IF p \in BeginOutputs(rows, cols, sr)
                            THEN "OUTPUT" ELSE pin_mode[p]]
          /\ pin_level' = LevelsAfter(pin_level, W, Len(W))
          /\ timer_period' = IsrFreqTable(freq)[0]
          /\ attached' = TRUE
    /\ UNCHANGED <<config_vars, MATRIX, refresh_vars, rotation, fg_vars,
                   isr_hist_vars, cleared, last_plot, diag_vars, plot_log>>

\* ------------------------------------------------------------- the ISR
\* Mutant of OldRow: the wrap from row 0 to the last row is forgotten.
OldRowNoWrap ==
    IF row = 0 THEN 0 ELSE ToInt8(row - 1)

\* The row shut off first: the row before `row`, in an int8_t.
OldRow ==
    IF row = 0 THEN ToInt8(ARRAY_ROWS - 1) ELSE ToInt8(row - 1)

\* Mutant of PeriodCalls: the period is set at the last row of a pass.
PeriodCallsLastRow ==
    IF row = ARRAY_ROWS - 1 THEN <<ISR_FREQ[isr_freq_offset]>> ELSE <<>>

\* Timer1.setPeriod calls of this invocation: one, when row is 0.
PeriodCalls ==
    IF row = 0 THEN <<ISR_FREQ[isr_freq_offset]>> ELSE <<>>

\* Mutant of DirectWrites: the cells are always read from the first row.
RECURSIVE DirectWritesFirstRow(_, _, _)
DirectWritesFirstRow(col, col_pin_offset, pwm_shifted) ==
    IF col <= ARRAY_COLS - 1
    THEN <<<<COL_PINS[col + col_pin_offset],
             MaskLevel(MATRIX[col], pwm_shifted)>>>>
             \o DirectWritesFirstRow(col + 1, col_pin_offset, pwm_shifted)
    ELSE <<>>

\* Direct colour mapping: one write per column pin of the plane.
RECURSIVE DirectWrites(_, _, _)
DirectWrites(col, col_pin_offset, pwm_shifted) ==
    IF col <= ARRAY_COLS - 1
    THEN <<<<COL_PINS[col + col_pin_offset],
             MaskLevel(MATRIX[row * ARRAY_COLS + col], pwm_shifted)>>>>
             \o DirectWrites(col + 1, col_pin_offset, pwm_shifted)
    ELSE <<>>

\* Mutant of ShiftWrites: the data bit is set after the rising clock edge.
RECURSIVE ShiftWritesDataLate(_, _)
ShiftWritesDataLate(col, pwm_shifted) ==
    IF col <= ARRAY_COLS - 1
    THEN <<<<SR_PINS[CLK], LOW>>, <<SR_PINS[CLK], HIGH>>,
           <<SR_PINS[DATA],
             MaskLevel(MATRIX[row * ARRAY_COLS + col], pwm_shifted)>>>>
             \o ShiftWritesDataLate(col + 1, pwm_shifted)
    ELSE <<>>

\* Shift register: clock LOW, data, clock HIGH for every column.
RECURSIVE ShiftWrites(_, _)
ShiftWrites(col, pwm_shifted) ==
    IF col <= ARRAY_COLS - 1
    THEN <<<<SR_PINS[CLK], LOW>>,
           <<SR_PINS[DATA],
             MaskLevel(MATRIX[row * ARRAY_COLS + col], pwm_shifted)>>,
           <<SR_PINS[CLK], HIGH>>>>
             \o ShiftWrites(col + 1, pwm_shifted)
    ELSE <<>>

\* The writes for one colour: direct, or latch LOW, the bits, latch HIGH.
PlaneWrites(color, col_pin_offset, pwm_shifted) ==
    IF SR_PINS[color] = DINV
    THEN DirectWrites(0, col_pin_offset, pwm_shifted)
    ELSE <<<<SR_PINS[color], LOW>>>> \o ShiftWrites(0, pwm_shifted)
             \o <<<<SR_PINS[color], HIGH>>>>

\* Mutant of ColorWrites: the mask is not moved to the next nibble.
RECURSIVE ColorWritesNoShift(_, _, _)
ColorWritesNoShift(color, col_pin_offset, pwm_shifted) ==
    IF color < NUM_COLORS
    THEN PlaneWrites(color, col_pin_offset, pwm_shifted)
             \o ColorWritesNoShift(color + 1,
                                   ToInt8(col_pin_offset + ARRAY_COLS),
                                   pwm_shifted)
    ELSE <<>>

\* The loop over the colours: the mask moves up one nibble per colour and
\* the column pin offset by one plane.
RECURSIVE ColorWrites(_, _, _)
ColorWrites(color, col_pin_offset, pwm_shifted) ==
    IF color < NUM_COLORS
    THEN PlaneWrites(color, col_pin_offset, pwm_shifted)
             \o ColorWrites(color + 1, ToInt8(col_pin_offset + ARRAY_COLS),
                            ToUint16(pwm_shifted * 16))
    ELSE <<>>

\* Mutant of IsrWrites: the row is turned on before the columns are set.
IsrWritesEnableEarly ==
    <<<<ROW_PINS[OldRow], HIGH>>, <<ROW_PINS[row], LOW>>>>
        \o ColorWrites(0, 0, pwm)

\* Every digitalWrite of one invocation, in order.
IsrWrites ==
    <<<<ROW_PINS[OldRow], HIGH>>>> \o ColorWrites(0, 0, pwm)
        \o <<<<ROW_PINS[row], LOW>>>>

\* Mutant of Advance: the row wraps one invocation late (> for >=).
AdvanceLateWrap ==
    LET r1 == ToUint8(row + 1)
        p1 == ToUint8(pwm * 2)
        o1 == ToUint8(isr_freq_offset + 1)
    IN IF r1 > ARRAY_ROWS
       THEN IF p1 >= DirectMatrix_PWM_LEVELS
            THEN [row |-> 0, pwm |-> 1, offset |-> 0]
            ELSE [row |-> 0, pwm |-> p1, offset |-> o1]
       ELSE [row |-> r1, pwm |-> pwm, offset |-> isr_freq_offset]

\* Mutant of Advance: the mask moves two bits per pass (pwm <<= 2).
AdvanceShiftTwo ==
    LET r1 == ToUint8(row + 1)
        p1 == ToUint8(pwm * 4)
        o1 == ToUint8(isr_freq_offset + 1)
    IN IF r1 >= ARRAY_ROWS
       THEN IF p1 >= DirectMatrix_PWM_LEVELS
            THEN [row |-> 0, pwm |-> 1, offset |-> 0]
            ELSE [row |-> 0, pwm |-> p1, offset |-> o1]
       ELSE [row |-> r1, pwm |-> pwm, offset |-> isr_freq_offset]

\* The statics after row++ and the wrap of row, pwm and isr_freq_offset.
Advance ==
    LET r1 == ToUint8(row + 1)
        p1 == ToUint8(pwm * 2)
        o1 == ToUint8(isr_freq_offset + 1)
    IN IF r1 >= ARRAY_ROWS
       THEN IF p1 >= DirectMatrix_PWM_LEVELS
            THEN [row |-> 0, pwm |-> 1, offset |-> 0]
            ELSE [row |-> 0, pwm |-> p1, offset |-> o1]
       ELSE [row |-> r1, pwm |-> pwm, offset |-> isr_freq_offset]

\* The rows a sequence of writes enables (drives LOW).
RowsEnabledBy(W) ==
    {r \in DOMAIN ROW_PINS : \E k \in 1..Len(W) : W[k] = <<ROW_PINS[r], LOW>>}

\* One timer tick; `runtime` is the time from the second micros() sample
\* to the third (shorter than the tick, so that the next tick finds the
\* ISR returned).  The tick that starts now lasts the period programmed
\* before this invocation: a period set here takes effect with the next.
\* `time` is a function static, set at the first call: the first latency
\* is 0; `time` is set again on the last line, so the next invocation
\* finds micros() - time = tick - runtime.
DirectMatrix_RefreshPWMLine(runtime) ==
    /\ attached
    /\ runtime < timer_period
    /\ ISR_latency' = since_time
    /\ ISR_runtime' = runtime
    /\ since_time' = timer_period - runtime
    /\ \E W \in {IsrWrites} :
       LET entry == [row |-> row, pwm |-> pwm, offset |-> isr_freq_offset,
                     periods |-> PeriodCalls, tick |-> timer_period,
                     enabled |-> RowsEnabledBy(W)]
       IN /\ pin_level' = LevelsAfter(pin_level, W, Len(W))
          /\ timer_period' =
                IF PeriodCalls = <<>> THEN timer_period ELSE PeriodCalls[1]
          /\ row' = Advance.row
          /\ pwm' = Advance.pwm
          /\ isr_freq_offset' = Advance.offset
          /\ last_isr' = [valid |-> TRUE, row |-> row, pwm |-> pwm,
                          offset |-> isr_freq_offset, pre |-> pin_level,
                          writes |-> W, periods |-> PeriodCalls,
                          tick |-> timer_period, fb |-> MATRIX,
                          after_clear |-> cleared,
                          second |-> last_isr.valid,
                          arrival |-> last_isr.tick,
                          steady |-> last_isr.steady
                                       \/ (last_isr.valid /\ isr_calls = 0)]
          /\ frame_log' =
                IF isr_calls = 0 THEN <<entry>>
                ELSE Append(frame_log, entry)
          /\ plot_log' =
                IF last_plot.n > 0 /\ Len(plot_log) < 4 * ARRAY_ROWS
                THEN Append(plot_log,
                            [row |-> row, pwm |-> pwm,
                             writes |-> IF row = last_plot.index
                                                    \div ARRAY_COLS
                                        THEN W ELSE <<>>])
                ELSE plot_log
    /\ isr_calls' = (isr_calls + 1) % (4 * ARRAY_ROWS)
    /\ UNCHANGED <<config_vars, MATRIX, table_vars, pin_mode, attached,
                   rotation, fg_vars, cleared, last_plot>>

\* -------------------------------------------------------- writeDisplay
\* The body is empty: the timer keeps the display updated.
writeDisplay ==
    /\ fg_pc = "idle"
    /\ UNCHANGED vars

\* --------------------------------------------------------------- clear
\* for (uint8_t i = 0; i < _num_rows * _num_cols; i++) MATRIX[i] = 0;
\* the ISR may run between any two iterations.
clear ==
    /\ fg_pc = "idle"
    /\ fg_pc' = "clear"
    /\ clear_i' = 0
    /\ UNCHANGED <<config_vars, MATRIX, table_vars, refresh_vars, gpio_vars,
                   timer_vars, rotation, isr_hist_vars, cleared, last_plot,
                   diag_vars, plot_log>>

\* Mutant of ClearCondition: the loop stops one cell early.
ClearConditionShort == clear_i < ARRAY_ROWS * ARRAY_COLS - 1

\* The loop condition of clear: uint8_t i against the int product.
ClearCondition == clear_i < ARRAY_ROWS * ARRAY_COLS

\* Mutant of ClearStep: the foreground loop restarts the row scan.
ClearStepResetsRow ==
    /\ fg_pc = "clear"
    /\ ClearCondition
    /\ MATRIX' = [MATRIX EXCEPT ![clear_i] = 0]
    /\ clear_i' = ToUint8(clear_i + 1)
    /\ row' = 0
    /\ UNCHANGED <<config_vars, table_vars, pwm, isr_freq_offset, gpio_vars,
                   timer_vars, rotation, fg_pc, isr_hist_vars, cleared,
                   last_plot, diag_vars, plot_log>>

ClearStep ==
    /\ fg_pc = "clear"
    /\ ClearCondition
    /\ MATRIX' = [MATRIX EXCEPT ![clear_i] = 0]
    /\ clear_i' = ToUint8(clear_i + 1)
    /\ last_plot' =
          IF last_plot.n > 0 /\ last_plot.index = clear_i
          THEN [last_plot EXCEPT !.overwritten = TRUE] ELSE last_plot
    /\ UNCHANGED <<config_vars, table_vars, refresh_vars, gpio_vars,
                   timer_vars, rotation, fg_pc, isr_hist_vars, cleared,
                   diag_vars, plot_log>>

ClearReturn ==
    /\ fg_pc = "clear"
    /\ ~ClearCondition
    /\ fg_pc' = "idle"
    /\ cleared' = TRUE
    /\ UNCHANGED <<config_vars, MATRIX, table_vars, refresh_vars, gpio_vars,
                   timer_vars, rotation, clear_i, isr_hist_vars, last_plot,
                   diag_vars, plot_log>>

\* ----------------------------------------------------------- drawPixel
\* Mutant of PlotInRange: the bound is the panel, not the fixed 8 x 8.
PlotInPanel(x, y) ==
    /\ ~((y < 0) \/ (y >= ARRAY_ROWS))
    /\ ~((x < 0) \/ (x >= ARRAY_COLS))

\* The two early returns of drawPixel.
PlotInRange(x, y) ==
    /\ ~((y < 0) \/ (y >= 8))
    /\ ~((x < 0) \/ (x >= 8))

\* Mutant of Rotate: rotation 3 flips x where the code flips y.
RotateFlipX(x, y, rot) ==
    CASE rot = 1 -> <<8 - y - 1, x>>
      [] rot = 2 -> <<8 - x - 1, 8 - y - 1>>
      [] rot = 3 -> <<8 - y - 1, x>>
      [] OTHER -> <<x, y>>

\* Mutant of Rotate: rotation 1 flips x without the swap.
RotateNoSwap(x, y, rot) ==
    CASE rot = 1 -> <<8 - x - 1, y>>
      [] rot = 2 -> <<8 - x - 1, 8 - y - 1>>
      [] rot = 3 -> LET sx == y  sy == x IN <<sx, 8 - sy - 1>>
      [] OTHER -> <<x, y>>

\* The switch on getRotation(): <<x, y>> after swap(x, y) and the flips.
Rotate(x, y, rot) ==
    CASE rot = 1 -> LET sx == y  sy == x IN <<8 - sx - 1, sy>>
      [] rot = 2 -> <<8 - x - 1, 8 - y - 1>>
      [] rot = 3 -> LET sx == y  sy == x IN <<sx, 8 - sy - 1>>
      [] OTHER -> <<x, y>>

\* The index of the store: y * _num_cols + x.
StoreIndex(xy) == xy[2] * ARRAY_COLS + xy[1]

\* A store whose index is outside the malloc'ed block lands behind the
\* framebuffer (the index is never negative), in memory that holds none
\* of the variables of this model: it is recorded in last_plot.index.
drawPixel(x, y, color) ==
    /\ fg_pc = "idle"
    /\ IF PlotInRange(x, y)
       THEN \E idx \in {StoreIndex(Rotate(x, y, rotation))} :
              /\ MATRIX' = IF idx \in DOMAIN MATRIX
                           THEN [MATRIX EXCEPT ![idx] = color]
                           ELSE MATRIX
              /\ cleared' = FALSE
              /\ last_plot' = [n |-> last_plot.n + 1, x |-> x, y |-> y,
                               color |-> color, rot |-> rotation,
                               index |-> idx, before |-> MATRIX,
                               overwritten |-> FALSE]
       ELSE /\ UNCHANGED <<MATRIX, cleared>>
            /\ last_plot' = [n |-> last_plot.n + 1, x |-> x, y |-> y,
                             color |-> color, rot |-> rotation,
                             index |-> -1, before |-> MATRIX,
                             overwritten |-> FALSE]
    /\ plot_log' = <<>>
    /\ UNCHANGED <<config_vars, table_vars, refresh_vars, gpio_vars,
                   timer_vars, rotation, fg_vars, isr_hist_vars, diag_vars>>

\* Adafruit_GFX::setRotation, read back by getRotation() in drawPixel.
setRotation(r) ==
    /\ fg_pc = "idle"
    /\ rotation' = r % 4
    /\ rotation' # rotation
    /\ UNCHANGED <<config_vars, MATRIX, table_vars, refresh_vars, gpio_vars,
                   timer_vars, fg_vars, isr_hist_vars, cleared, last_plot,
                   diag_vars, plot_log>>

\* ------------------------------------------- the refresh specification
\* begin, then the timer ISR alone: no foreground activity.
Begin == \E sr \in SrPinTables(NUM_COLORS), freq \in BasePeriods : begin(sr, freq)

\* ISR runtimes tried, in microseconds: short, and close to the shortest
\* tick (the source's profiling note gives 104 to 268 for 8 + 8 columns).
Runtimes == {10, 140}

\* A timer tick with each of the runtimes.
Tick == \E runtime \in Runtimes : DirectMatrix_RefreshPWMLine(runtime)

\* A timer tick with the short runtime only.
ShortTick == \E runtime \in {10} : DirectMatrix_RefreshPWMLine(runtime)

Next == Begin \/ Tick

Spec == Init /\ [][Next]_vars

\* --------------------------------------------- the clear specification
\* clear in the foreground, pre-empted by the ISR between iterations.
MaxClearRows == 2
MaxClearCols == 2

InitClear ==
    \E R \in 1..MaxClearRows, C \in 1..MaxClearCols, K \in 1..MaxColors :
        \E fb \in ClearPatterns(R * C, Words) : Constructed(R, C, K, fb)

NextClear == Begin \/ ShortTick \/ clear \/ ClearStep \/ ClearReturn

SpecClear == InitClear /\ [][NextClear]_vars

\* ------------------------------------------------------ claim helpers
\* The position in the frame of the last ISR invocation (k - 1 mod 4*R).
PrevCall == (isr_calls + 4 * ARRAY_ROWS - 1) % (4 * ARRAY_ROWS)

\* The rows at the enabled level.
RowsLow(levels) == {r \in DOMAIN ROW_PINS : levels[ROW_PINS[r]] = LOW}

\* Bit n of a word.
Bit(word, n) == (word \div Pow2(n)) % 2

\* The number of writes of colour j in one invocation, and the position
\* in the write sequence after which colour i starts (the row shut-off is
\* write 1).
PlaneLen(j) == IF SR_PINS[j] = DINV THEN ARRAY_COLS ELSE 3 * ARRAY_COLS + 2
RECURSIVE PlaneStart(_)
PlaneStart(i) == IF i = 0 THEN 1 ELSE PlaneStart(i - 1) + PlaneLen(i - 1)

\* The writes of W to pin p.
WritesTo(W, p) == {k \in 1..Len(W) : W[k][1] = p}

\* C1: from (row 0, mask 1, index 0) the k-th ISR invocation services the
\* pair (k mod R, (k div R) mod 4); between invocations row is in [0, R),
\* the mask in {1,2,4,8} and the index in [0,4); over a complete frame of
\* 4*R invocations every row is enabled once per plane.
C1_FrameCoverage ==
    /\ row \in 0..(ARRAY_ROWS - 1)
    /\ pwm \in {1, 2, 4, 8}
    /\ isr_freq_offset \in 0..3
    /\ row = isr_calls % ARRAY_ROWS
    /\ isr_freq_offset = (isr_calls \div ARRAY_ROWS) % 4
    /\ pwm = Pow2(isr_freq_offset)
    /\ last_isr.valid =>
          /\ RowsEnabledBy(last_isr.writes) = {PrevCall % ARRAY_ROWS}
          /\ last_isr.pwm = Pow2((PrevCall \div ARRAY_ROWS) % 4)
          /\ Len(frame_log) = PrevCall + 1
    /\ (last_isr.valid /\ isr_calls = 0) =>
          \A r \in 0..(ARRAY_ROWS - 1), p \in 0..3 :
              Cardinality({j \in 1..Len(frame_log) :
                              /\ frame_log[j].enabled = {r}
                              /\ frame_log[j].pwm = Pow2(p)}) = 1

\* A complete frame that is not the first one (its first tick still ran
\* with the period of the last pass of the frame before).
C1_Witness ==
    /\ isr_calls = 0
    /\ Len(frame_log) = 4 * ARRAY_ROWS
    /\ ARRAY_ROWS >= 2
    /\ frame_log[1].tick = ISR_FREQ[3]

\* C2: once begin has set up the row pins, at most one row pin is LOW: in
\* every state, and after every single GPIO write inside an invocation.
C2_RowExclusive ==
    attached =>
        /\ Cardinality(RowsLow(pin_level)) <= 1
        /\ last_isr.valid =>
              \A n \in 0..Len(last_isr.writes) :
                  Cardinality(RowsLow(
                      LevelsAfter(last_isr.pre, last_isr.writes, n))) <= 1

\* One row: the invocation shuts the only row off and enables it again.
C2_Witness ==
    /\ last_isr.valid
    /\ ARRAY_ROWS = 1
    /\ RowsLow(last_isr.pre) = {0}
    /\ RowsLow(LevelsAfter(last_isr.pre, last_isr.writes, 1)) = {}
    /\ RowsLow(pin_level) = {0}

\* C3: the tick that displays BCM bit b of a row lasts 2^b * T[0], row 0
\* included, so that a nibble value v is lit for v * T[0] per frame (a
\* period programmed at row 0 takes effect after the current tick).
C3_BcmWeighting ==
    \A j \in 1..Len(frame_log) :
        frame_log[j].tick = frame_log[j].pwm * ISR_FREQ[0]

\* C4: in every frame set_period is called only at row 0, once per pass,
\* with T[0] << p = base_period * mask at the start of pass p.
C4_PeriodSchedule ==
    /\ \A j \in 1..Len(frame_log) :
          LET p == (j - 1) \div ARRAY_ROWS
          IN /\ frame_log[j].periods =
                   IF (j - 1) % ARRAY_ROWS = 0
                   THEN <<ISR_FREQ[0] * Pow2(p)>> ELSE <<>>
             /\ frame_log[j].periods # <<>> =>
                   /\ frame_log[j].row = 0
                   /\ frame_log[j].periods[1] =
                         ISR_FREQ[0] * frame_log[j].pwm
    /\ (last_isr.valid /\ isr_calls = 0) =>
          Cardinality({j \in 1..Len(frame_log) :
                          frame_log[j].periods # <<>>}) = 4
    /\ last_isr.valid =>
          timer_period = ISR_FREQ[PrevCall \div ARRAY_ROWS]

C4_Witness ==
    /\ isr_calls = 0
    /\ Len(frame_log) = 4 * ARRAY_ROWS
    /\ ARRAY_ROWS = 1
    /\ frame_log[1].tick = ISR_FREQ[3]
    /\ frame_log[4].periods = <<8 * ISR_FREQ[0]>>

\* C5: the invocation that services (row r, bit b) writes every column pin
\* i*C + c of a direct-drive colour i < K exactly once, HIGH iff bit
\* 4*i + b of cell[r, c] is set; there is no write beyond those of the K
\* colours and the two row writes.
C5_DirectColumns ==
    last_isr.valid =>
        LET W == last_isr.writes
            r == PrevCall % ARRAY_ROWS
            b == (PrevCall \div ARRAY_ROWS) % 4
        IN /\ Len(W) = PlaneStart(NUM_COLORS) + 1
           /\ \A i \in 0..(NUM_COLORS - 1) :
                 SR_PINS[i] = DINV =>
                    \A c \in 0..(ARRAY_COLS - 1) :
                       /\ W[PlaneStart(i) + c + 1] =
                             <<COL_PINS[i * ARRAY_COLS + c],
                               IF Bit(last_isr.fb[r * ARRAY_COLS + c],
                                      4 * i + b) = 1
                               THEN HIGH ELSE LOW>>
                       /\ Cardinality(
                             WritesTo(W, COL_PINS[i * ARRAY_COLS + c])) = 1

\* Two direct colours, showing different levels for the same cell.
C5_Witness ==
    /\ last_isr.valid
    /\ NUM_COLORS = 2
    /\ SR_PINS[0] = DINV
    /\ SR_PINS[1] = DINV
    /\ ARRAY_ROWS >= 2
    /\ last_isr.row = 1
    /\ pin_level[COL_PINS[0]] # pin_level[COL_PINS[ARRAY_COLS]]

\* C6: for a shift-register colour i the invocation writes, before the row
\* is enabled: latch LOW; per column clock LOW, data = bit 4*i + b of the
\* cell, clock HIGH; latch HIGH; and none of the column pins of plane i.
C6_ShiftRegister ==
    last_isr.valid =>
        LET W == last_isr.writes
            r == PrevCall % ARRAY_ROWS
            b == (PrevCall \div ARRAY_ROWS) % 4
        IN /\ W[Len(W)] = <<ROW_PINS[r], LOW>>
           /\ WritesTo(W, ROW_PINS[r]) \subseteq {1, Len(W)}
           /\ \A i \in 0..(NUM_COLORS - 1) :
                 SR_PINS[i] # DINV =>
                    LET s == PlaneStart(i)
                    IN /\ s + 3 * ARRAY_COLS + 2 < Len(W)
                       /\ W[s + 1] = <<SR_PINS[i], LOW>>
                       /\ \A c \in 0..(ARRAY_COLS - 1) :
                             /\ W[s + 3 * c + 2] = <<SR_PINS[CLK], LOW>>
                             /\ W[s + 3 * c + 3] =
                                   <<SR_PINS[DATA],
                                     IF Bit(last_isr.fb[r * ARRAY_COLS + c],
                                            4 * i + b) = 1
                                     THEN HIGH ELSE LOW>>
                             /\ W[s + 3 * c + 4] = <<SR_PINS[CLK], HIGH>>
                       /\ W[s + 3 * ARRAY_COLS + 2] = <<SR_PINS[i], HIGH>>
                       /\ WritesTo(W, SR_PINS[i]) =
                             {s + 1, s + 3 * ARRAY_COLS + 2}
                       /\ \A c \in 0..(ARRAY_COLS - 1) :
                             WritesTo(W, COL_PINS[i * ARRAY_COLS + c]) = {}

\* Colour 0 direct and colour 1 on a shift register, with a data bit HIGH
\* while the colour-0 column of the same cell is LOW.
C6_Witness ==
    /\ last_isr.valid
    /\ NUM_COLORS = 2
    /\ SR_PINS[0] = DINV
    /\ SR_PINS[1] # DINV
    /\ \E k \in 1..Len(last_isr.writes) :
          last_isr.writes[k] = <<SR_PINS[DATA], HIGH>>
    /\ pin_level[COL_PINS[0]] = LOW

\* ------------------------------------------ the clear loop specification
\* clear alone on panels of 64, 255 and 256 cells; the foreground always
\* makes progress.
ClearLoopSizes == {<<8, 8>>, <<15, 17>>, <<16, 16>>}

InitClearLoop ==
    \E size \in ClearLoopSizes :
        \E fb \in ClearPatterns(size[1] * size[2], Words) :
            Constructed(size[1], size[2], 1, fb)

NextClearLoop == clear \/ ClearStep \/ ClearReturn

SpecClearLoop ==
    /\ InitClearLoop
    /\ [][NextClearLoop]_vars
    /\ WF_vars(ClearStep)
    /\ WF_vars(ClearReturn)

\* ------------------------------------------ the drawPixel specification
\* drawPixel and setRotation on panels of 8 x 8 and more, one colour,
\* with the ISR running for the first ticks.
MaxPlotRows == 9
MaxPlotCols == 9
MaxPlots == 1
MaxPlotTicks == 1

InitPlot ==
    \E R \in 8..MaxPlotRows, C \in 8..MaxPlotCols :
        \E fb \in {[i \in 0..(R * C - 1) |-> Words[1]]} :
            Constructed(R, C, 1, fb)

Plot ==
    /\ last_plot.n < MaxPlots
    /\ \E x \in -1..8, y \in -1..8, color \in PlotWords :
          drawPixel(x, y, color)

SetRotation == \E r \in 0..3 : setRotation(r)

PlotTick == isr_calls < MaxPlotTicks /\ ShortTick

NextPlot == Begin \/ PlotTick \/ Plot \/ SetRotation

SpecPlot == InitPlot /\ [][NextPlot]_vars

\* -------------------------------------------------- claims C7 .. C10
\* The column pins at HIGH.
ColsHigh(levels) == {j \in DOMAIN COL_PINS : levels[COL_PINS[j]] = HIGH}

\* C7: once clear has returned (and nothing is plotted), an ISR invocation
\* drives no column pin and no shift-register data bit HIGH, and from its
\* first write on no row is enabled while a column pin is HIGH.
C7_ClearedDark ==
    /\ cleared => \A i \in DOMAIN MATRIX : MATRIX[i] = 0
    /\ (last_isr.valid /\ last_isr.after_clear) =>
          LET W == last_isr.writes
          IN /\ \A k \in 1..Len(W) :
                   (W[k][1] = SR_PINS[DATA]
                        \/ \E j \in DOMAIN COL_PINS : W[k][1] = COL_PINS[j])
                      => W[k][2] = LOW
             /\ \A n \in 1..Len(W) :
                   LET L == LevelsAfter(last_isr.pre, W, n)
                   IN RowsLow(L) = {} \/ ColsHigh(L) = {}

\* An invocation after clear that found a row enabled with a column HIGH
\* (the panel was lit before the clear) and left the panel dark.
C7_Witness ==
    /\ last_isr.valid
    /\ last_isr.after_clear
    /\ RowsLow(last_isr.pre) # {}
    /\ ColsHigh(last_isr.pre) # {}
    /\ RowsLow(pin_level) # {}
    /\ ColsHigh(pin_level) = {}
    /\ ARRAY_ROWS * ARRAY_COLS >= 4

\* C8: for every size with R and C in 1..255 clear terminates, and on
\* return every cell is zero.
C8_ClearTerminates ==
    (fg_pc = "clear") ~>
        (fg_pc = "idle" /\ \A i \in DOMAIN MATRIX : MATRIX[i] = 0)

\* C9: plot(x, y, w) with (x, y) in [0,8) x [0,8) stores w into exactly
\* the cell y'*C + x', where (x', y') is (x, y), (7-y, x), (7-x, 7-y) or
\* (y, 7-x) for rotation 0, 1, 2, 3, and changes no other cell.
C9_PlotStores ==
    (last_plot.n > 0 /\ last_plot.x \in 0..7 /\ last_plot.y \in 0..7) =>
        LET x == last_plot.x
            y == last_plot.y
            xe == CASE last_plot.rot = 0 -> x
                    [] last_plot.rot = 1 -> 7 - y
                    [] last_plot.rot = 2 -> 7 - x
                    [] last_plot.rot = 3 -> y
            ye == CASE last_plot.rot = 0 -> y
                    [] last_plot.rot = 1 -> x
                    [] last_plot.rot = 2 -> 7 - y
                    [] last_plot.rot = 3 -> 7 - x
            idx == ye * ARRAY_COLS + xe
        IN /\ idx \in DOMAIN MATRIX
           /\ MATRIX[idx] = last_plot.color
           /\ \A i \in DOMAIN MATRIX :
                 i # idx => MATRIX[i] = last_plot.before[i]

\* Rotation 2, plot(0, 0, w): the cell (7, 7) holds w, on a panel with
\* more than 8 columns.
C9_Witness ==
    /\ last_plot.n = 1
    /\ last_plot.rot = 2
    /\ last_plot.x = 0
    /\ last_plot.y = 0
    /\ last_plot.color # Words[1]
    /\ ARRAY_COLS = 9
    /\ MATRIX[7 * ARRAY_COLS + 7] = last_plot.color
    /\ MATRIX[0] = Words[1]

\* C10: a plot with x or y outside [0, 8) changes no framebuffer cell, no
\* part of the refresh state and no pin level.
C10_OutOfRangeNoOp ==
    [][(/\ last_plot'.n # last_plot.n
        /\ ~(last_plot'.x \in 0..7 /\ last_plot'.y \in 0..7))
          => /\ MATRIX' = MATRIX
             /\ row' = row
             /\ pwm' = pwm
             /\ isr_freq_offset' = isr_freq_offset
             /\ pin_level' = pin_level]_vars

\* plot(8, y, w) on a panel with 9 columns, after the ISR has run.
C10_Witness ==
    /\ last_plot.n = 1
    /\ last_plot.x = 8
    /\ last_plot.y \in 0..7
    /\ last_plot.color # Words[1]
    /\ ARRAY_COLS = 9
    /\ last_isr.valid
    /\ row = 1
    /\ MATRIX = last_plot.before

\* ------------------------------------------ the lifecycle specification
\* From the constructor's malloc on: begin, the timer, and the foreground
\* calling clear, drawPixel (inside the panel, rotation 0) and
\* writeDisplay in any interleaving.  The timer is fair.
LifeSizes == {<<1, 1, 1>>, <<2, 1, 2>>, <<1, 2, 2>>}
MaxLifePlots == 1

InitLife ==
    \E size \in LifeSizes : Allocating(size[1], size[2], size[3])

LifeMalloc ==
    \E fb \in ClearPatterns(ARRAY_ROWS * ARRAY_COLS, Words) : Malloc(fb)

LifePlot ==
    /\ last_plot.n < MaxLifePlots
    /\ \E x \in 0..(ARRAY_COLS - 1), y \in 0..(ARRAY_ROWS - 1),
          color \in PlotWords : drawPixel(x, y, color)

\* clear is called when the framebuffer is not already known to be clear.
LifeClear == ~cleared /\ clear

NextLife ==
    \/ LifeMalloc
    \/ MallocFails
    \/ MallocFailedLoop
    \/ Begin
    \/ ShortTick
    \/ LifeClear
    \/ ClearStep
    \/ ClearReturn
    \/ LifePlot
    \/ writeDisplay

SpecLife == InitLife /\ [][NextLife]_vars /\ WF_vars(ShortTick)

\* -------------------------------------------------- claims C11 .. C16
\* C11: when begin has returned, before the first ISR invocation, every
\* row pin is an OUTPUT at HIGH and every one of the K*C column pins of the
\* column pin table is an OUTPUT at LOW.
C11_BeginPins ==
    (attached /\ ~last_isr.valid) =>
        /\ \A r \in DOMAIN ROW_PINS :
              /\ pin_mode[ROW_PINS[r]] = "OUTPUT"
              /\ pin_level[ROW_PINS[r]] = HIGH
        /\ \A j \in DOMAIN COL_PINS :
              /\ pin_mode[COL_PINS[j]] = "OUTPUT"
              /\ pin_level[COL_PINS[j]] = LOW

\* C13: from the second invocation on, the latency sample is the time
\* between the starts of the two most recent invocations, and it lies in
\* [T[0]/2, 2*T[3]], for every runtime shorter than the tick.
C13_LatencyInterArrival ==
    (last_isr.valid /\ last_isr.second) =>
        /\ ISR_latency = last_isr.arrival
        /\ 2 * ISR_latency >= ISR_FREQ[0]
        /\ ISR_latency <= 2 * ISR_FREQ[3]

\* C14: the first write of an invocation disables row (r - 1) mod R, the
\* last one enables row r, every write between them goes to a column or
\* shift register pin, and no row is enabled while those are written.
C14_RowOrdering ==
    last_isr.valid =>
        LET W == last_isr.writes
            r == PrevCall % ARRAY_ROWS
            rowpins == {ROW_PINS[q] : q \in DOMAIN ROW_PINS}
            others == {COL_PINS[j] : j \in DOMAIN COL_PINS}
                         \cup {SR_PINS[i] : i \in DOMAIN SR_PINS}
        IN /\ W[1] = <<ROW_PINS[(r + ARRAY_ROWS - 1) % ARRAY_ROWS], HIGH>>
           /\ W[Len(W)] = <<ROW_PINS[r], LOW>>
           /\ Len(W) >= 2 + ARRAY_COLS * NUM_COLORS
           /\ \A k \in 2..(Len(W) - 1) :
                 /\ W[k][1] \in others \ rowpins
                 /\ RowsLow(LevelsAfter(last_isr.pre, W, k - 1)) = {}
                 /\ RowsLow(LevelsAfter(last_isr.pre, W, k)) = {}

\* A row was lit before the invocation; one colour is driven directly and
\* one through a shift register.
C14_Witness ==
    /\ last_isr.valid
    /\ RowsLow(last_isr.pre) # {}
    /\ ARRAY_ROWS >= 2
    /\ NUM_COLORS = 2
    /\ SR_PINS[0] # DINV
    /\ SR_PINS[1] = DINV
    /\ RowsLow(pin_level) = {last_isr.row}

\* C15 as the code has it: between invocations the mask is 1 << index.
C15_MaskIsTwoToIndex ==
    /\ pwm = Pow2(isr_freq_offset)
    /\ last_isr.valid => last_isr.pwm = Pow2(last_isr.offset)

\* The last pass of a frame: index 3, mask 8.
C15_Witness ==
    /\ last_isr.valid
    /\ isr_freq_offset = 3
    /\ pwm = 8

\* C15 as stated: between invocations the mask is 1 << (2 * index).
C15_MaskIsFourToIndex == pwm = Pow2(2 * isr_freq_offset)

\* The sum of the ticks of the first n invocations of a frame that
\* enabled row r.
RECURSIVE RowTime(_, _, _)
RowTime(log, r, n) ==
    IF n = 0 THEN 0
    ELSE RowTime(log, r, n - 1)
            + (IF log[n].enabled = {r} THEN log[n].tick ELSE 0)

\* The sum of the ticks of the first n invocations of a frame.
RECURSIVE FrameTime(_, _)
FrameTime(log, n) ==
    IF n = 0 THEN 0 ELSE FrameTime(log, n - 1) + log[n].tick

\* C16: over a complete frame that is not the first one, every row, row 0
\* included, is enabled for 15 * T[0] in total, and the frame lasts
\* 15 * R * T[0].
C16_EqualRowTime ==
    (last_isr.valid /\ last_isr.steady /\ isr_calls = 0) =>
        /\ Len(frame_log) = 4 * ARRAY_ROWS
        /\ \A r \in 0..(ARRAY_ROWS - 1) :
              RowTime(frame_log, r, Len(frame_log)) = 15 * ISR_FREQ[0]
        /\ \A j \in 1..Len(frame_log) : Cardinality(frame_log[j].enabled) = 1
        /\ FrameTime(frame_log, Len(frame_log))
              = 15 * ARRAY_ROWS * ISR_FREQ[0]

\* The end of the second frame of a panel with several rows: row 0 was
\* shown for 8, 1, 2 and 4 times T[0].
C16_Witness ==
    /\ last_isr.valid
    /\ last_isr.steady
    /\ isr_calls = 0
    /\ ARRAY_ROWS >= 2
    /\ frame_log[1].tick = 8 * ISR_FREQ[0]
    /\ frame_log[ARRAY_ROWS + 1].tick = ISR_FREQ[0]

\* -------------------------------------------------- claims C12, C17, C18
\* C12: if malloc fails the constructor never returns (it stays in its
\* endless loop), the framebuffer pointer stays unset, begin is never
\* reached, the ISR is never attached and no cell is read or written;
\* whenever the constructor has returned the pointer is a framebuffer.
C12_MallocFailHalts ==
    /\ [][fg_pc = "halt" => fg_pc' = "halt"]_vars
    /\ [](fg_pc = "halt" =>
             /\ MATRIX = <<>>
             /\ ~attached
             /\ ROW_PINS = <<>>
             /\ timer_period = 0
             /\ ~last_isr.valid
             /\ last_plot.n = 0
             /\ ~cleared)
    /\ [](fg_pc \notin {"ctor", "halt"} =>
             DOMAIN MATRIX = 0..(ARRAY_ROWS * ARRAY_COLS - 1))

\* The constructor of a panel of two rows, stuck after a failed malloc.
C12_Witness ==
    /\ fg_pc = "halt"
    /\ ARRAY_ROWS = 2
    /\ MATRIX = <<>>

\* The row and the column of the cell the last drawPixel stored to.
PlotRow == last_plot.index \div ARRAY_COLS
PlotCol == last_plot.index % ARRAY_COLS

\* The write of invocation e that shows column c of colour i.
CellWrite(e, i, c) ==
    IF SR_PINS[i] = DINV
    THEN e.writes[PlaneStart(i) + c + 1]
    ELSE e.writes[PlaneStart(i) + 3 * c + 3]

\* Among the logged invocations the plotted cell's row was serviced once
\* per plane, each time with the bits of the plotted word on every colour.
PlotShown ==
    \A p \in 0..3 :
        LET S == {j \in 1..Len(plot_log) :
                     plot_log[j].row = PlotRow /\ plot_log[j].pwm = Pow2(p)}
        IN /\ Cardinality(S) = 1
           /\ \A j \in S, i \in 0..(NUM_COLORS - 1) :
                 CellWrite(plot_log[j], i, PlotCol) =
                    <<IF SR_PINS[i] = DINV
                      THEN COL_PINS[i * ARRAY_COLS + PlotCol]
                      ELSE SR_PINS[DATA],
                      IF Bit(last_plot.color, 4 * i + p) = 1
                      THEN HIGH ELSE LOW>>

\* C17: with a fair timer, after an in-bounds plot that nothing overwrites
\* the next 4*R invocations come, and among them the cell's row is
\* serviced once per plane with the levels of the plotted word for every
\* colour i < K; no other call is needed.
C17_PlotVisible ==
    /\ []((/\ last_plot.n > 0
           /\ last_plot.index \in DOMAIN MATRIX
           /\ ~last_plot.overwritten
           /\ Len(plot_log) = 4 * ARRAY_ROWS) => PlotShown)
    /\ (last_plot.n > 0 /\ attached) ~> (Len(plot_log) = 4 * ARRAY_ROWS)

\* Two colours, two rows: the word 0x8421 plotted into the second row has
\* been shown, colour 0 direct and colour 1 through the shift register.
C17_Witness ==
    /\ last_plot.n > 0
    /\ ~last_plot.overwritten
    /\ last_plot.color = 33825
    /\ Len(plot_log) = 4 * ARRAY_ROWS
    /\ ARRAY_ROWS = 2
    /\ NUM_COLORS = 2
    /\ PlotRow = 1
    /\ SR_PINS[0] = DINV
    /\ SR_PINS[1] # DINV
    /\ PlotShown

\* A step keeps to its owner's variables: the count of invocations moves
\* with every ISR step, attached with begin.
OwnersKept ==
    /\ (isr_calls' # isr_calls) =>
          (MATRIX' = MATRIX /\ table_vars' = table_vars)
    /\ (isr_calls' = isr_calls /\ attached' = attached) =>
          (/\ refresh_vars' = refresh_vars
           /\ pin_level' = pin_level
           /\ timer_period' = timer_period)

\* C18: an ISR invocation changes no framebuffer cell, period or pin
\* table entry; a step of plot, clear or writeDisplay changes neither the
\* refresh state nor a pin level; so row, plane and period follow the
\* invocation count as they do without any foreground activity.
C18_Ownership ==
    /\ [][OwnersKept]_vars
    /\ [](/\ row = isr_calls % ARRAY_ROWS
          /\ isr_freq_offset = (isr_calls \div ARRAY_ROWS) % 4
          /\ pwm = Pow2(isr_freq_offset)
          /\ last_isr.valid =>
                LET W == last_isr.writes
                    r == PrevCall % ARRAY_ROWS
                    p == (PrevCall \div ARRAY_ROWS) % 4
                IN /\ last_isr.row = r
                   /\ last_isr.pwm = Pow2(p)
                   /\ W[1] = <<ROW_PINS[(r + ARRAY_ROWS - 1) % ARRAY_ROWS],
                               HIGH>>
                   /\ W[Len(W)] = <<ROW_PINS[r], LOW>>
                   /\ last_isr.periods =
                         IF r = 0 THEN <<ISR_FREQ[p]>> ELSE <<>>)

\* clear is under way after a plot, and the framebuffer is no longer the
\* one the last invocation read.
C18_Witness ==
    /\ last_isr.valid
    /\ last_isr.steady
    /\ last_plot.n > 0
    /\ fg_pc = "clear"
    /\ clear_i >= 1
    /\ MATRIX # last_isr.fb

\* --------------------------------- the drawPixel specification, any size
\* drawPixel and setRotation on panels smaller than, equal to and mixed
\* around the 8 x 8 that drawPixel assumes.
PlotAnySizes == {<<1, 1>>, <<7, 8>>, <<8, 7>>, <<8, 8>>}

InitPlotAny ==
    \E size \in PlotAnySizes :
        \E fb \in {[i \in 0..(size[1] * size[2] - 1) |-> Words[1]]} :
            Constructed(size[1], size[2], 1, fb)

NextPlotAny == Begin \/ PlotTick \/ Plot \/ SetRotation

SpecPlotAny == InitPlotAny /\ [][NextPlotAny]_vars

\* -------------------------------------------------- claims C19, C20
\* The rotation-1 map applied n times.
RECURSIVE RotateTimes(_, _)
RotateTimes(xy, n) ==
    IF n = 0 THEN xy
    ELSE LET q == RotateTimes(xy, n - 1) IN Rotate(q[1], q[2], 1)

\* C19: the map drawPixel applies for rotation r is the rotation-1 map
\* composed r times; four times rotation 1 is the identity on
\* [0,8) x [0,8); the map stays inside [0,8) x [0,8) and no other logical
\* position lands in the cell of the plotted one (C >= 8).
C19_RotationCompose ==
    (last_plot.n > 0 /\ last_plot.x \in 0..7 /\ last_plot.y \in 0..7) =>
        LET xy == <<last_plot.x, last_plot.y>>
            r == last_plot.rot
        IN /\ Rotate(xy[1], xy[2], r) = RotateTimes(xy, r)
           /\ last_plot.index = StoreIndex(RotateTimes(xy, r))
           /\ RotateTimes(xy, 4) = xy
           /\ Rotate(xy[1], xy[2], r) \in (0..7) \X (0..7)
           /\ \A x2 \in 0..7, y2 \in 0..7 :
                 <<x2, y2>> # xy =>
                    StoreIndex(Rotate(x2, y2, r)) # last_plot.index

\* Rotation 3, plot(1, 2, w) on a panel of 9 columns: cell (6, 2).
C19_Witness ==
    /\ last_plot.n = 1
    /\ last_plot.rot = 3
    /\ last_plot.x = 1
    /\ last_plot.y = 2
    /\ ARRAY_COLS = 9
    /\ last_plot.index = 6 * ARRAY_COLS + 2
    /\ MATRIX[last_plot.index] = last_plot.color

\* C20: every store of drawPixel goes to a cell index in [0, R*C), for
\* every constructed size, rotation and (x, y).
C20_StoreInFramebuffer ==
    (last_plot.n > 0 /\ last_plot.index # -1) =>
        last_plot.index \in 0..(ARRAY_ROWS * ARRAY_COLS - 1)

====
